---- MODULE Spec2Model ----
(***************************************************************************)
(* Model of the pdf-tool-go document pipeline: the Validation Gate         *)
(* (PDFService.ValidateRequest), the Transform Engine (PDFService), its    *)
(* scratch files under the shared temp root, and the handler layer         *)
(* (PDFHandler).                                                          *)
(***************************************************************************)
EXTENDS Integers, Sequences, FiniteSets, TLC

\* ------------------------------------------------------------------ bounds
NumOps == 2          \* concurrent invocations in SpecConc
MaxTok == 2          \* size of the random-suffix space of os.CreateTemp
MaxBlobLen == 6      \* longest uploaded byte sequence (bytes)
MaxDocPages == 10    \* pages of the largest uploaded document
MaxMerge == 3        \* most blobs in one merge request
MaxUpdates == 1      \* updates of the task that are told apart
MaxRefreshTokens == 4 \* rows of the refreshToken table

\* ------------------------------------------------------------- constants
MagicLen == 4        \* len("%PDF"), pdfData[:4]

Min(a, b) == IF a < b THEN a ELSE b

\* ------------------------------------------------------------------ blobs
\* A byte sequence is modelled by its first MagicLen bytes (head), its length,
\* and what a structural parse of it yields: ok and the page sequence.
PDFMagic == <<"%", "P", "D", "F">>
GIFMagic == <<"G", "I", "F", "8">>

Page(d, i) == [d |-> d, i |-> i]
PagesOf(d, n) == [i \in 1..n |-> Page(d, i)]

\* info: the document carries an information dictionary (XRefTable.Info # nil);
\* title, author: what the dictionary stores, "" for a member it lacks.
Blob(head, len, ok, pages, info) ==
    [head |-> head, len |-> len, ok |-> ok, pages |-> pages, info |-> info,
     title |-> "", author |-> ""]
EmptyBlob == Blob(<<>>, 0, FALSE, <<>>, FALSE)

\* A well-formed document of n pages named d, MaxBlobLen bytes long.
Doc(d, n) == Blob(PDFMagic, MaxBlobLen, TRUE, PagesOf(d, n), TRUE)
DocNoInfo(d, n) == Blob(PDFMagic, MaxBlobLen, TRUE, PagesOf(d, n), FALSE)
\* A well-formed document whose information dictionary stores title and author.
DocTitled(d, n, title, author) == [Doc(d, n) EXCEPT !.title = title, !.author = author]
\* Bytes that carry the signature but whose structure does not parse.
CorruptPDF == Blob(PDFMagic, MaxBlobLen, FALSE, <<>>, FALSE)
\* An upload that is no PDF at all ("GIF89a...").
GifBlob == Blob(GIFMagic, MaxBlobLen, FALSE, <<>>, FALSE)

\* What the transformation library writes: a PDF holding the given pages.
MkPDF(pages) == Blob(PDFMagic, MagicLen + Len(pages), TRUE, pages, FALSE)

PageCount(b) == Len(b.pages)

\* ---------------------------------------------------------------- errors
Nil == "nil"
ErrEmpty == "PDF data is empty"
ErrTooLarge == "PDF file too large"
ErrInvalidFormat == "invalid PDF format"
ErrMergeCount == "at least 2 PDFs required for merging"

\* ------------------------------------------------------- Validation Gate
\* the gate without its emptiness check
ValidateRequestNoEmptyCheck(pdfData, cfg) ==
    IF pdfData.len > cfg.maxFileSize THEN ErrTooLarge
    ELSE IF pdfData.len < MagicLen \/ SubSeq(pdfData.head, 1, MagicLen) # PDFMagic
         THEN ErrInvalidFormat
    ELSE Nil

\* the gate with >= for > in the size check
ValidateRequestSizeInclusive(pdfData, cfg) ==
    IF pdfData.len = 0 THEN ErrEmpty
    ELSE IF pdfData.len >= cfg.maxFileSize THEN ErrTooLarge
    ELSE IF pdfData.len < MagicLen \/ SubSeq(pdfData.head, 1, MagicLen) # PDFMagic
         THEN ErrInvalidFormat
    ELSE Nil

\* the gate comparing one byte too few of the signature
ValidateRequestShortMagic(pdfData, cfg) ==
    IF pdfData.len = 0 THEN ErrEmpty
    ELSE IF pdfData.len > cfg.maxFileSize THEN ErrTooLarge
    ELSE IF pdfData.len < MagicLen - 1
            \/ SubSeq(pdfData.head, 1, MagicLen - 1) # SubSeq(PDFMagic, 1, MagicLen - 1)
         THEN ErrInvalidFormat
    ELSE Nil

ValidateRequest(pdfData, cfg) ==
    IF pdfData.len = 0 THEN ErrEmpty
    ELSE IF pdfData.len > cfg.maxFileSize THEN ErrTooLarge
    ELSE IF pdfData.len < MagicLen \/ SubSeq(pdfData.head, 1, MagicLen) # PDFMagic
         THEN ErrInvalidFormat
    ELSE Nil

\* ------------------------------------------------------------- temp root
\* A scratch name under config.PDF.TempDir: the pattern, the %d of the merge
\* pattern, the unique component (CreateTemp's random suffix or a uuid) and,
\* for a file inside a split output directory, its page number.
Name(pat, idx, tok, page) == [pat |-> pat, idx |-> idx, tok |-> tok, page |-> page]
NoName == Name("", 0, 0, 0)

Tokens == 1..MaxTok

\* the file opened without O_EXCL: a name in use can be returned
CreateTempNamesNoExcl(files, pat, idx) == {Name(pat, idx, t, 0) : t \in Tokens}

\* os.CreateTemp(dir, pattern): * is replaced by a random string, the file is
\* opened O_EXCL, and an existing name is retried: the names it can return.
CreateTempNames(files, pat, idx) ==
    {n \in {Name(pat, idx, t, 0) : t \in Tokens} : n \notin DOMAIN files}

Put(files, n, data) == [m \in DOMAIN files \cup {n} |-> IF m = n THEN data ELSE files[m]]

\* a removal by pattern: every scratch file of the same kind goes
RemoveByPattern(files, n) ==
    [m \in {x \in DOMAIN files : ~(x.pat = n.pat /\ x.idx = n.idx)} |-> files[m]]

\* os.Remove(name)
Remove(files, n) == [m \in DOMAIN files \ {n} |-> files[m]]

InDir(dir, n) == n.pat = dir.pat /\ n.tok = dir.tok

\* os.RemoveAll(dir): the directory and everything under it
RemoveAll(files, dir) == [m \in {x \in DOMAIN files : ~InDir(dir, x)} |-> files[m]]

\* ------------------------------------------------------- file name order
\* strconv.Itoa for the page numbers of the model, as ASCII codes.
RECURSIVE Itoa(_)
Itoa(n) == IF n < 10 THEN <<48 + n>> ELSE Itoa(n \div 10) \o <<48 + (n % 10)>>

\* pdfcpu names the file of page i "<base>_<i>.pdf"; the files of one split
\* share <base>, so their order is the order of "<i>.pdf".
PageFileName(i) == Itoa(i) \o <<46, 112, 100, 102>>

\* Go string comparison (bytewise lexicographic)
RECURSIVE StrLess(_, _)
StrLess(a, b) ==
    IF b = <<>> THEN FALSE
    ELSE IF a = <<>> THEN TRUE
    ELSE IF Head(a) # Head(b) THEN Head(a) < Head(b)
    ELSE StrLess(Tail(a), Tail(b))

\* filepath.Glob(outputDir/*.pdf): the matching names, sorted as strings
RECURSIVE SortByFileName(_)
SortByFileName(S) ==
    IF S = {} THEN <<>>
    ELSE LET m == CHOOSE x \in S :
                    \A y \in S \ {x} : StrLess(PageFileName(x.page), PageFileName(y.page))
         IN <<m>> \o SortByFileName(S \ {m})

Glob(files, dir) == SortByFileName({n \in DOMAIN files : InDir(dir, n) /\ n.page > 0})

\* ------------------------------------------------ transformation library
\* The pages of the named files, in the order of the list.
RECURSIVE ConcatPages(_, _)
ConcatPages(files, inFiles) ==
    IF inFiles = <<>> THEN <<>>
    ELSE files[Head(inFiles)].pages \o ConcatPages(files, Tail(inFiles))

Readable(files, n) == n \in DOMAIN files /\ files[n].ok

\* api.MergeCreateFile(inFiles, outFile, nil): the document written to outFile
MergeCreateFile(files, inFiles) ==
    IF \A k \in 1..Len(inFiles) : Readable(files, inFiles[k])
    THEN [ok |-> TRUE, data |-> MkPDF(ConcatPages(files, inFiles))]
    ELSE [ok |-> FALSE, data |-> EmptyBlob]

\* api.SplitFile(inFile, outDir, 1, nil): one file per page under outDir
SplitFile(files, inFile, outDir) ==
    IF Readable(files, inFile)
    THEN [ok |-> TRUE,
          out |-> [n \in {Name(outDir.pat, 0, outDir.tok, i) : i \in 1..PageCount(files[inFile])}
                     |-> MkPDF(<<files[inFile].pages[n.page]>>)]]
    ELSE [ok |-> FALSE, out |-> <<>>]

\* an optimizer that keeps the first page only
OptimizeFileFirstPage(files, inFile) ==
    IF Readable(files, inFile)
    THEN [ok |-> TRUE, data |-> MkPDF(SubSeq(files[inFile].pages, 1, 1))]
    ELSE [ok |-> FALSE, data |-> EmptyBlob]

\* api.OptimizeFile(inFile, outFile, nil)
OptimizeFile(files, inFile) ==
    IF Readable(files, inFile)
    THEN [ok |-> TRUE, data |-> MkPDF(files[inFile].pages)]
    ELSE [ok |-> FALSE, data |-> EmptyBlob]

\* api.AddWatermarksFile(inFile, outFile, nil, wm, nil)
AddWatermarksFile(files, inFile) ==
    IF Readable(files, inFile)
    THEN [ok |-> TRUE, data |-> MkPDF(files[inFile].pages)]
    ELSE [ok |-> FALSE, data |-> EmptyBlob]

\* ------------------------------------------------------------ operations
EngineOps == {"ConvertToImage", "MergePDFs", "SplitPDF", "ExtractText",
              "ExtractMetadata", "CompressPDF", "AddWatermark"}
SingleOps == EngineOps \ {"MergePDFs"}

\* the routes whose handlers are placeholders
PlaceholderOps == {"RotatePages", "EncryptPDF", "DecryptPDF", "BatchProcess", "BatchStatus"}

\* the pattern handed to createTempFile by each operation
InputPattern(o) ==
    CASE o = "ConvertToImage" -> "input"
      [] o = "MergePDFs"      -> "merge-input"
      [] o = "SplitPDF"       -> "split-input"
      [] o = "ExtractText"    -> "extract-text"
      [] o = "CompressPDF"    -> "compress-input"
      [] o = "AddWatermark"   -> "watermark-input"

\* the uuid-named output of each operation
OutputPattern(o) ==
    CASE o = "MergePDFs"    -> "merge-output"
      [] o = "SplitPDF"     -> "split-output"
      [] o = "CompressPDF"  -> "compress-output"
      [] o = "AddWatermark" -> "watermark-output"

\* what the engine returns: an error (Nil on success) and the result
\* (files: the PDF blobs or Images; the members no operation sets keep Go's
\* zero value)
Ret(err, files, pageCount, title, author) ==
    [err |-> err, files |-> files, pageCount |-> pageCount, title |-> title, author |-> author,
     subject |-> "", creator |-> "", producer |-> "", creationDate |-> "", modDate |-> "",
     text |-> "", pages |-> <<>>, format |-> ""]
NoRet == Ret("pending", <<>>, 0, "", "")
Fail(err) == Ret(err, <<>>, 0, "", "")

\* one response written to the client. A JSON failure body is
\* gin.H{"error": <message>}: it has the one member "error", and no member
\* that carries an error code (code is "").
Response(status, kind, error) ==
    [status |-> status, kind |-> kind, error |-> error, code |-> ""]

FailureMessage(o) ==
    CASE o = "ConvertToImage"  -> "Conversion failed"
      [] o = "MergePDFs"       -> "Merge failed"
      [] o = "SplitPDF"        -> "Split failed"
      [] o = "ExtractText"     -> "Extraction failed"
      [] o = "ExtractMetadata" -> "Extraction failed"
      [] o = "CompressPDF"     -> "Compression failed"
      [] o = "AddWatermark"    -> "Watermark failed"

\* binary (c.Data) or JSON (c.JSON) success body
SuccessKind(o) == IF o \in {"MergePDFs", "CompressPDF", "AddWatermark"} THEN "data" ELSE "json"

\* ----------------------------------------------------------------- state
VARIABLES
    config,      \* the service's Config: PDF.MaxFileSize, PDF.MaxPages
    fs,          \* the temp root: scratch name -> content
    uuidNext,    \* source of uuid.New()
    pc,          \* per invocation: where it stands
    req,         \* per invocation: operation, entry point, upload
    tempFiles,   \* per invocation: names returned by createTempFile, in order
    output,      \* per invocation: outputFile / outputDir
    defers,      \* per invocation: the deferred removals, last registered last
    ret,         \* per invocation: what the engine (or the gate) returned
    resp,        \* per invocation: the responses written
    created,     \* history: every scratch name the invocation created
    held,        \* history: the scratch names of the invocation that are live
    rmFailed,    \* history: names whose removal returned an error
    libCalls,    \* history: the library calls made, with their arguments
    faults,      \* history: the environment failures the invocation met
    engineCalls, \* history: the engine methods the invocation entered
    ctx,         \* per invocation: the context it was given: ctx.Err(), and
                 \* where the invocation stood when the context was cancelled
    taskRow,     \* backend: the row of the task in the database
    taskCache,   \* backend: the cache entry "task:<id>", <<>> when absent
    taskCalls,   \* backend: per call of TaskService: operation, user, position,
                 \* the row it read, its outcome
    refreshToken,\* backend: the refreshToken table, one row per stored token
    authCalls    \* backend: per call of AuthService: operation, token,
                 \* position, the row it read, its outcome

pdfVars == <<config, fs, uuidNext, pc, req, tempFiles, output, defers, ret, resp,
             created, held, rmFailed, libCalls, faults, engineCalls, ctx>>
taskVars == <<taskRow, taskCache, taskCalls>>
authVars == <<refreshToken, authCalls>>
backend == <<taskVars, authVars>>
vars == <<pdfVars, backend>>

Procs == 1..NumOps

\* ---------------------------------------------------------------- inputs
NearMagic == <<"%", "P", "D", "G">>

\* the byte sequences handed to the gate: every length up to one past the
\* largest ceiling, with and without the signature, parseable or not
GateBlobs ==
    UNION {
      {Blob(SubSeq(h, 1, Min(len, MagicLen)), len, FALSE, <<>>, FALSE) :
          h \in {PDFMagic, GIFMagic, NearMagic}}
      \cup (IF len >= MagicLen
            THEN {Blob(PDFMagic, len, TRUE, PagesOf("A", n), TRUE) : n \in {1, MaxDocPages}}
            ELSE {})
      : len \in 0..(MaxBlobLen + 1)}

Configs == {[maxFileSize |-> m, maxPages |-> MaxDocPages - 1] : m \in {0, MaxBlobLen - 1, MaxBlobLen}}

\* a well-formed document one byte over the largest ceiling
OversizeDoc == Blob(PDFMagic, MaxBlobLen + 1, TRUE, PagesOf("A", 1), TRUE)

EngineBlobs == {EmptyBlob, GifBlob, CorruptPDF, Blob(<<"%", "P", "D">>, 3, FALSE, <<>>, FALSE),
                Doc("A", 1), Doc("A", 2), Doc("A", MaxDocPages), DocNoInfo("B", 2), OversizeDoc}

MergeBlobs == {Doc("A", 2), Doc("B", 1), CorruptPDF}
MergeSeqs == UNION {[1..k -> MergeBlobs] : k \in 0..MaxMerge}

\* format: ConvertToImageRequest.Format, "png" unless the caller names another;
\* pageRange: SplitRequest.PageRange, "all" unless the caller names another;
\* level: CompressRequest.CompressionLevel, 1 unless the caller names another
Request(o, via, form, pdfs) ==
    [op |-> o, via |-> via, form |-> form, pdfs |-> pdfs,
     format |-> IF o = "ConvertToImage" THEN "png" ELSE "",
     pageRange |-> IF o = "SplitPDF" THEN "all" ELSE "",
     level |-> IF o = "CompressPDF" THEN 1 ELSE 0]

\* CompressionLevel: 1-3 (low, medium, high)
CompressionLevels == 1..3

\* page specifications a caller may give: the default, page 1 alone, and one
\* that is no page specification
PageRanges == {"all", "1", "1-x"}

\* the raster formats ConvertToImageRequest.Format names
SupportedFormats == {"png", "jpeg", "webp"}
NoRequest == Request("", "", "", <<>>)

\* direct calls of the gate
GateInputs == {Request("ValidateRequest", "direct", "ok", <<b>>) : b \in GateBlobs}

Inputs ==
    {Request(o, v, "ok", <<b>>) : o \in SingleOps, v \in {"direct", "http"}, b \in EngineBlobs}
    \cup {Request(o, "http", f, <<>>) : o \in SingleOps, f \in {"missing", "unreadable"}}
    \cup {Request("MergePDFs", v, "ok", q) : v \in {"direct", "http"}, q \in MergeSeqs}
    \cup {Request("MergePDFs", "http", "unreadable", q) : q \in MergeSeqs}
    \cup {Request("MergePDFs", "http", "missing", <<>>)}
    \cup {Request("ExtractMetadata", v, "ok", <<DocTitled("A", 1, t, "")>>) :
             v \in {"direct", "http"}, t \in {"T", "Document Title"}}
    \cup {[Request("ConvertToImage", v, "ok", <<b>>) EXCEPT !.format = f] :
             v \in {"direct", "http"}, b \in {Doc("A", 2), CorruptPDF}, f \in {"jpeg", "tiff"}}
    \cup {[Request("SplitPDF", v, "ok", <<Doc("A", 2)>>) EXCEPT !.pageRange = r] :
             v \in {"direct", "http"}, r \in PageRanges}
    \cup {[Request("CompressPDF", v, "ok", <<b>>) EXCEPT !.level = l] :
             v \in {"direct", "http"}, l \in CompressionLevels,
             b \in {Doc("A", 2), MkPDF(PagesOf("A", 2))}}
    \cup {Request(o, "http", "ok", <<b>>) : o \in PlaceholderOps, b \in {Doc("A", 1), GifBlob}}
    \cup {Request(o, "http", f, <<>>) : o \in PlaceholderOps, f \in {"missing", "unreadable"}}

\* concurrent invocations: every engine operation, on a good document, and a
\* merge that the library rejects
ConcInputs ==
    {Request(o, "direct", "ok", <<Doc("A", 2)>>) : o \in SingleOps}
    \cup {Request("MergePDFs", "direct", "ok", q) : q \in {<<Doc("A", 2), Doc("B", 1)>>, <<Doc("A", 2), CorruptPDF>>}}

\* the requests whose context is cancelled under way
CancelInputs ==
    {Request(o, v, "ok", <<b>>) : o \in SingleOps, v \in {"direct", "http"}, b \in {Doc("A", 2), CorruptPDF}}
    \cup {Request("MergePDFs", v, "ok", q) :
             v \in {"direct", "http"}, q \in {<<Doc("A", 2), Doc("B", 1)>>, <<Doc("A", 2), CorruptPDF>>}}

\* the documents split and merged back: 1 page up to MaxMerge pages
RoundTripInputs == {Request("SplitPDF", "direct", "ok", <<Doc("A", n)>>) : n \in 1..MaxMerge}

\* context.Background(): never cancelled
Background == [err |-> Nil, at |-> ""]
Canceled == "context canceled"
DeadlineExceeded == "context deadline exceeded"

\* ---------------------------------------------------------- task service
\* the users: a member of the task's project, the project's creator (who has
\* no membership row), and a user who is neither
Users == {"member", "creator", "outsider"}
ProjectMembers == {"member"}
ProjectCreator == "creator"

\* a row of the task table: deletedAt set or null, and how often it was updated
TaskRow(deleted, rev) == [deletedAt |-> deleted, rev |-> rev]

TaskCall(op, user, at) == [op |-> op, user |-> user, pc |-> at, task |-> <<>>, result |-> ""]
NoTaskCall == TaskCall("", "", "idle")

\* ---------------------------------------------------------- auth service
AuthUsers == {"u1", "u2"}

\* a row of the refreshToken table; the token string is the row's index
TokenRecord(userId) == [userId |-> userId, revokedAt |-> FALSE, expired |-> FALSE]

\* the token strings a client may present: the stored ones and one the
\* table will never hold
TokenStrings == 1..(MaxRefreshTokens + 1)

AuthCall(op, token, at) ==
    [op |-> op, token |-> token, pc |-> at, tokenRecord |-> <<>>, result |-> ""]
NoAuthCall == AuthCall("", 0, "idle")

InitBackend ==
    /\ taskRow = TaskRow(FALSE, 0)
    /\ taskCache = <<>>
    /\ taskCalls = [c \in Procs |-> NoTaskCall]
    /\ refreshToken = <<TokenRecord("u1"), TokenRecord("u2")>>
    /\ authCalls = [c \in Procs |-> NoAuthCall]

\* ------------------------------------------------------------------ Init
InitProcs ==
    /\ fs = <<>>
    /\ uuidNext = 1
    /\ pc = [p \in Procs |-> "idle"]
    /\ req = [p \in Procs |-> NoRequest]
    /\ tempFiles = [p \in Procs |-> <<>>]
    /\ output = [p \in Procs |-> NoName]
    /\ defers = [p \in Procs |-> <<>>]
    /\ ret = [p \in Procs |-> NoRet]
    /\ resp = [p \in Procs |-> <<>>]
    /\ created = [p \in Procs |-> {}]
    /\ held = [p \in Procs |-> {}]
    /\ rmFailed = [p \in Procs |-> {}]
    /\ libCalls = [p \in Procs |-> <<>>]
    /\ faults = [p \in Procs |-> {}]
    /\ engineCalls = [p \in Procs |-> <<>>]
    /\ ctx = [p \in Procs |-> Background]
    /\ InitBackend

\* the configuration the server and the concurrent callers run with
ServerConfig == [maxFileSize |-> MaxBlobLen, maxPages |-> MaxDocPages - 1]

Init == config = ServerConfig /\ InitProcs

\* a service built on any configuration, as the tests build it
InitGate == config \in Configs /\ InitProcs

\* ---------------------------------------------------------- configuration
DefaultPort == 8080
MaxPort == 65535
DefaultMaxFileSize == 52428800
DefaultMaxPages == 1000
DefaultCompressionLevel == 1

ValidLogLevels == {"debug", "info", "warn", "error"}

\* the Config that v.Unmarshal yields from defaults, environment and file
Settings ==
    [port : {0, 1, DefaultPort, MaxPort, MaxPort + 1},
     maxFileSize : {-1, 0, DefaultMaxFileSize},
     maxPages : {0, DefaultMaxPages},
     logLevel : {"info", "error", "verbose"},
     compressionLevel : {0, DefaultCompressionLevel, 3, 4}]

\* validate(cfg): the error it returns, Nil for none
validate(cfg) ==
    IF cfg.port < 1 \/ cfg.port > MaxPort THEN "invalid port"
    ELSE IF cfg.maxFileSize <= 0 THEN "max_file_size must be positive"
    ELSE IF cfg.maxPages <= 0 THEN "max_pages must be positive"
    ELSE IF cfg.logLevel \notin ValidLogLevels THEN "invalid log level"
    ELSE Nil

\* a process started on any settings
InitConfig == config \in Settings /\ InitProcs

\* config.Load(): the config file cannot be read or unmarshalled, or the
\* settings are validated
Load(p) ==
    /\ pc[p] = "idle"
    /\ \/ /\ ret' = [ret EXCEPT ![p] = Fail(validate(config))]
          /\ UNCHANGED faults
       \/ /\ ret' = [ret EXCEPT ![p] = Fail("failed to read config file")]
          /\ faults' = [faults EXCEPT ![p] = @ \cup {"config"}]
    /\ req' = [req EXCEPT ![p] = Request("Load", "direct", "ok", <<>>)]
    /\ pc' = [pc EXCEPT ![p] = "loaded"]
    /\ UNCHANGED <<backend, ctx, engineCalls, config, fs, uuidNext, tempFiles, output, defers, resp,
                   created, held, rmFailed, libCalls>>

\* main: os.Exit(1) if Load failed, else the service is built and serves
Main(p) ==
    /\ pc[p] = "loaded"
    /\ pc' = [pc EXCEPT ![p] = IF ret[p].err # Nil THEN "exit" ELSE "serving"]
    /\ UNCHANGED <<backend, ctx, engineCalls, config, fs, uuidNext, req, tempFiles, output, defers, ret, resp,
                   created, held, rmFailed, libCalls, faults>>

\* ----------------------------------------------------------- entry points
\* A client posts a request, or a caller (a test) invokes the service directly.
SubmitFrom(p, inputs) ==
    /\ pc[p] = "idle"
    /\ \E r \in inputs :
         /\ req' = [req EXCEPT ![p] = r]
         /\ pc' = [pc EXCEPT ![p] = IF r.via = "http" THEN "handler"
                                    ELSE IF r.op = "ValidateRequest" THEN "validate"
                                    ELSE "engine"]
    /\ UNCHANGED <<backend, ctx, engineCalls, config, fs, uuidNext, tempFiles, output, defers, ret, resp,
                   created, held, rmFailed, libCalls, faults>>

Submit(p) == SubmitFrom(p, Inputs)
SubmitConc(p) == SubmitFrom(p, ConcInputs)
SubmitGate(p) == SubmitFrom(p, GateInputs)
SubmitCancel(p) == SubmitFrom(p, CancelInputs)
SubmitSplit(p) == SubmitFrom(p, RoundTripInputs)

\* a caller hands the blobs a split returned, in the order it returned them,
\* to a merge
SubmitMergeOfSplit(q, p) ==
    /\ pc[q] = "idle"
    /\ pc[p] = "done" /\ req[p].op = "SplitPDF" /\ ret[p].err = Nil
    /\ req' = [req EXCEPT ![q] = Request("MergePDFs", "direct", "ok", ret[p].files)]
    /\ pc' = [pc EXCEPT ![q] = "engine"]
    /\ UNCHANGED <<backend, ctx, engineCalls, config, fs, uuidNext, tempFiles, output, defers, ret, resp,
                   created, held, rmFailed, libCalls, faults>>

\* a direct call of PDFService.ValidateRequest
Validate(p) ==
    /\ pc[p] = "validate"
    /\ ret' = [ret EXCEPT ![p] = Fail(ValidateRequest(req[p].pdfs[1], config))]
    /\ pc' = [pc EXCEPT ![p] = "done"]
    /\ UNCHANGED <<backend, ctx, engineCalls, config, fs, uuidNext, req, tempFiles, output, defers, resp,
                   created, held, rmFailed, libCalls, faults>>

\* ---------------------------------------------------------- handler layer
NoResponse == Response(0, "", "")

\* what a handler answers before it reaches the engine, NoResponse if it goes on
HandlerConvertToImage(r, cfg) ==
    IF r.form = "missing" THEN Response(400, "json", "PDF file required")
    ELSE IF r.form = "unreadable" THEN Response(500, "json", "Failed to read file")
    ELSE IF ValidateRequest(r.pdfs[1], cfg) # Nil
         THEN Response(400, "json", ValidateRequest(r.pdfs[1], cfg))
    ELSE NoResponse

HandlerMergePDFs(r) ==
    IF r.form = "missing" THEN Response(400, "json", "Invalid multipart form")
    ELSE IF Len(r.pdfs) < 2 THEN Response(400, "json", "At least 2 PDFs required")
    ELSE IF r.form = "unreadable" THEN Response(500, "json", "Failed to read file")
    ELSE NoResponse

\* SplitPDF, ExtractText, ExtractMetadata, CompressPDF, AddWatermark
HandlerUpload(r) ==
    IF r.form = "missing" THEN Response(400, "json", "PDF file required")
    ELSE IF r.form = "unreadable" THEN Response(500, "json", "Failed to read file")
    ELSE NoResponse

\* a placeholder that asks for the file field like the other handlers
HandlerPlaceholderRequiresFile(r) ==
    IF r.form = "missing" THEN Response(400, "json", "PDF file required")
    ELSE Response(501, "json", "")

\* RotatePages, EncryptPDF, DecryptPDF, BatchProcess, BatchStatus:
\* c.JSON(http.StatusNotImplemented, gin.H{"message": "Coming soon"}), a body
\* without an "error" member
HandlerPlaceholder(r) == Response(501, "json", "")

Prologue(r, cfg) ==
    CASE r.op = "ConvertToImage" -> HandlerConvertToImage(r, cfg)
      [] r.op = "MergePDFs"      -> HandlerMergePDFs(r)
      [] r.op \in PlaceholderOps -> HandlerPlaceholder(r)
      [] OTHER                   -> HandlerUpload(r)

Handler(p) ==
    /\ pc[p] = "handler"
    /\ LET early == Prologue(req[p], config) IN
         IF early # NoResponse
         THEN /\ resp' = [resp EXCEPT ![p] = Append(@, early)]
              /\ pc' = [pc EXCEPT ![p] = "done"]
         ELSE /\ pc' = [pc EXCEPT ![p] = "engine"]
              /\ UNCHANGED resp
    /\ UNCHANGED <<backend, ctx, engineCalls, config, fs, uuidNext, req, tempFiles, output, defers, ret,
                   created, held, rmFailed, libCalls, faults>>

\* ------------------------------------------------------- Transform Engine
\* the bound off by one: a single PDF is let through
MergeTooFewOffByOne(pdfs) == Len(pdfs) < 1

\* len(req.PDFs) < 2
MergeTooFew(pdfs) == Len(pdfs) < 2

\* entry of an engine method, up to its first scratch allocation
EngineEntry(p) ==
    /\ pc[p] = "engine"
    /\ IF req[p].op = "MergePDFs" /\ MergeTooFew(req[p].pdfs)
       THEN /\ ret' = [ret EXCEPT ![p] = Fail(ErrMergeCount)]
            /\ pc' = [pc EXCEPT ![p] = "unwind"]
       ELSE /\ pc' = [pc EXCEPT ![p] = IF req[p].op = "ExtractMetadata" THEN "lib" ELSE "create"]
            /\ UNCHANGED ret
    /\ engineCalls' = [engineCalls EXCEPT ![p] = Append(@, req[p].op)]
    /\ UNCHANGED <<backend, ctx, config, fs, uuidNext, req, tempFiles, output, defers, resp,
                   created, held, rmFailed, libCalls, faults>>

\* where an operation goes after its n-th createTempFile succeeded
AfterCreate(r, n) ==
    CASE r.op = "ConvertToImage" -> "unwind"
      [] r.op = "MergePDFs"      -> IF n < Len(r.pdfs) THEN "create" ELSE "output"
      [] r.op = "ExtractText"    -> "lib"
      [] OTHER                   -> "output"

Deferred(n, all) == [name |-> n, all |-> all]

\* the defer left out: nothing is registered
DeferRemoveForgotten(ds, n) == ds

\* defer os.Remove(name)
DeferRemove(ds, n) == Append(ds, Deferred(n, FALSE))

\* defer os.RemoveAll(dir)
DeferRemoveAll(ds, n) == Append(ds, Deferred(n, TRUE))

\* every scratch file is given the first blob
TempDataFirst(r, i) == r.pdfs[1]

\* the bytes the (i+1)-th createTempFile of an operation is given
TempData(r, i) == IF r.op = "MergePDFs" THEN r.pdfs[i + 1] ELSE r.pdfs[1]

\* Images: [][]byte{}, PageCount: 0, Format: req.Format
ConvertToImageResult(r) == [Ret(Nil, <<>>, 0, "", "") EXCEPT !.format = r.format]

\* one call of createTempFile, and the defer os.Remove(tempFile) after it
CreateTempFile(p) ==
    /\ pc[p] = "create"
    /\ LET r == req[p]
           i == Len(tempFiles[p])
           data == TempData(r, i)
           names == CreateTempNames(fs, InputPattern(r.op), IF r.op = "MergePDFs" THEN i ELSE 0)
       IN
       \/ \E n \in names :              \* created and written
            /\ fs' = Put(fs, n, data)
            /\ tempFiles' = [tempFiles EXCEPT ![p] = Append(@, n)]
            /\ defers' = [defers EXCEPT ![p] = DeferRemove(@, n)]
            /\ created' = [created EXCEPT ![p] = @ \cup {n}]
            /\ held' = [held EXCEPT ![p] = @ \cup {n}]
            /\ pc' = [pc EXCEPT ![p] = AfterCreate(r, i + 1)]
            /\ ret' = [ret EXCEPT ![p] = IF r.op = "ConvertToImage"
                                         THEN ConvertToImageResult(r) ELSE @]
            /\ UNCHANGED <<rmFailed, faults>>
       \/ /\ fs' = fs                   \* os.MkdirAll or os.CreateTemp fails
          /\ ret' = [ret EXCEPT ![p] = Fail("failed to create temp file")]
          /\ pc' = [pc EXCEPT ![p] = "unwind"]
          /\ faults' = [faults EXCEPT ![p] = @ \cup {"alloc"}]
          /\ UNCHANGED <<tempFiles, defers, created, held, rmFailed>>
       \/ \E n \in names, removed \in BOOLEAN :   \* io.Copy fails, os.Remove(tmpFile.Name())
            /\ fs' = IF removed THEN fs ELSE Put(fs, n, EmptyBlob)
            /\ created' = [created EXCEPT ![p] = @ \cup {n}]
            /\ held' = [held EXCEPT ![p] = IF removed THEN @ ELSE @ \cup {n}]
            /\ rmFailed' = [rmFailed EXCEPT ![p] = IF removed THEN @ ELSE @ \cup {n}]
            /\ ret' = [ret EXCEPT ![p] = Fail("failed to create temp file")]
            /\ pc' = [pc EXCEPT ![p] = "unwind"]
            /\ faults' = [faults EXCEPT ![p] = @ \cup {"write"}]
            /\ UNCHANGED <<tempFiles, defers>>
    /\ UNCHANGED <<backend, ctx, engineCalls, config, uuidNext, req, output, resp, libCalls>>

\* an identifier source that repeats itself
NewUUIDRepeated(next) == 1

\* uuid.New()
NewUUID(next) == next

\* outputFile := filepath.Join(TempDir, ...uuid...) with its defer os.Remove; for
\* a split, os.MkdirAll(outputDir) with its defer os.RemoveAll
NewOutput(p) ==
    /\ pc[p] = "output"
    /\ LET r == req[p]
           n == Name(OutputPattern(r.op), 0, NewUUID(uuidNext), 0)
       IN
       /\ uuidNext' = uuidNext + 1
       /\ output' = [output EXCEPT ![p] = n]
       /\ IF r.op = "SplitPDF"
          THEN \/ /\ fs' = IF n \in DOMAIN fs THEN fs ELSE Put(fs, n, EmptyBlob)
                  /\ defers' = [defers EXCEPT ![p] = DeferRemoveAll(@, n)]
                  /\ created' = [created EXCEPT ![p] = @ \cup {n}]
                  /\ held' = [held EXCEPT ![p] = @ \cup {n}]
                  /\ pc' = [pc EXCEPT ![p] = "lib"]
                  /\ UNCHANGED <<ret, faults>>
               \/ /\ ret' = [ret EXCEPT ![p] = Fail("failed to create output directory")]
                  /\ pc' = [pc EXCEPT ![p] = "unwind"]
                  /\ faults' = [faults EXCEPT ![p] = @ \cup {"mkdir"}]
                  /\ UNCHANGED <<fs, defers, created, held>>
          ELSE /\ defers' = [defers EXCEPT ![p] = DeferRemove(@, n)]
               /\ pc' = [pc EXCEPT ![p] = IF r.op = "AddWatermark" THEN "parsewm" ELSE "lib"]
               /\ UNCHANGED <<fs, ret, created, held, faults>>
    /\ UNCHANGED <<backend, ctx, engineCalls, config, req, tempFiles, resp, rmFailed, libCalls>>

\* pdfcpu.ParseTextWatermarkDetails(req.WatermarkText, "", false, nil)
ParseWatermark(p) ==
    /\ pc[p] = "parsewm"
    /\ \/ /\ pc' = [pc EXCEPT ![p] = "lib"]
          /\ UNCHANGED <<ret, faults>>
       \/ /\ ret' = [ret EXCEPT ![p] = Fail("failed to parse watermark")]
          /\ pc' = [pc EXCEPT ![p] = "unwind"]
          /\ faults' = [faults EXCEPT ![p] = @ \cup {"parsewm"}]
    /\ UNCHANGED <<backend, ctx, engineCalls, config, fs, uuidNext, req, tempFiles, output, defers, resp,
                   created, held, rmFailed, libCalls>>

\* the record kept of one library call: what it was given and where it wrote
LibCall(fn, inFiles, out) ==
    [fn |-> fn, inFiles |-> inFiles, out |-> out,
     inData |-> [k \in 1..Len(inFiles) |->
                    IF inFiles[k] \in DOMAIN fs THEN fs[inFiles[k]] ELSE EmptyBlob]]

\* a library call that writes one output file: r is what it would write
LibToFile(p, fn, inFiles, r, errmsg) ==
    /\ libCalls' = [libCalls EXCEPT ![p] = Append(@, LibCall(fn, inFiles, output[p]))]
    /\ \/ /\ r.ok
          /\ fs' = Put(fs, output[p], r.data)
          /\ created' = [created EXCEPT ![p] = @ \cup {output[p]}]
          /\ held' = [held EXCEPT ![p] = @ \cup {output[p]}]
          /\ pc' = [pc EXCEPT ![p] = "read"]
          /\ UNCHANGED <<ret, faults>>
       \/ \E partial \in BOOLEAN :      \* the call fails, the output may exist
            /\ fs' = IF partial THEN Put(fs, output[p], EmptyBlob) ELSE fs
            /\ created' = [created EXCEPT ![p] = IF partial THEN @ \cup {output[p]} ELSE @]
            /\ held' = [held EXCEPT ![p] = IF partial THEN @ \cup {output[p]} ELSE @]
            /\ ret' = [ret EXCEPT ![p] = Fail(errmsg)]
            /\ pc' = [pc EXCEPT ![p] = "unwind"]
            /\ faults' = [faults EXCEPT ![p] = IF r.ok THEN @ \cup {"lib"} ELSE @]
    /\ UNCHANGED <<backend, ctx, engineCalls, config, uuidNext, req, tempFiles, output, defers, resp, rmFailed>>

LibMerge(p) ==
    /\ pc[p] = "lib" /\ req[p].op = "MergePDFs"
    /\ LibToFile(p, "MergeCreateFile", tempFiles[p],
                 MergeCreateFile(fs, tempFiles[p]), "failed to merge PDFs")

LibOptimize(p) ==
    /\ pc[p] = "lib" /\ req[p].op = "CompressPDF"
    /\ LibToFile(p, "OptimizeFile", tempFiles[p],
                 OptimizeFile(fs, tempFiles[p][1]), "failed to compress PDF")

LibWatermark(p) ==
    /\ pc[p] = "lib" /\ req[p].op = "AddWatermark"
    /\ LibToFile(p, "AddWatermarksFile", tempFiles[p],
                 AddWatermarksFile(fs, tempFiles[p][1]), "failed to add watermark")

LibSplit(p) ==
    /\ pc[p] = "lib" /\ req[p].op = "SplitPDF"
    /\ LET r == SplitFile(fs, tempFiles[p][1], output[p])
           first == Name(output[p].pat, 0, output[p].tok, 1)
       IN
       /\ libCalls' = [libCalls EXCEPT ![p] = Append(@, LibCall("SplitFile", tempFiles[p], output[p]))]
       /\ \/ /\ r.ok
             /\ fs' = [m \in DOMAIN fs \cup DOMAIN r.out |->
                          IF m \in DOMAIN r.out THEN r.out[m] ELSE fs[m]]
             /\ created' = [created EXCEPT ![p] = @ \cup DOMAIN r.out]
             /\ held' = [held EXCEPT ![p] = @ \cup DOMAIN r.out]
             /\ pc' = [pc EXCEPT ![p] = "read"]
             /\ UNCHANGED <<ret, faults>>
          \/ \E partial \in BOOLEAN :
               /\ fs' = IF partial THEN Put(fs, first, EmptyBlob) ELSE fs
               /\ created' = [created EXCEPT ![p] = IF partial THEN @ \cup {first} ELSE @]
               /\ held' = [held EXCEPT ![p] = IF partial THEN @ \cup {first} ELSE @]
               /\ ret' = [ret EXCEPT ![p] = Fail("failed to split PDF")]
               /\ pc' = [pc EXCEPT ![p] = "unwind"]
               /\ faults' = [faults EXCEPT ![p] = IF r.ok THEN @ \cup {"lib"} ELSE @]
    /\ UNCHANGED <<backend, ctx, engineCalls, config, uuidNext, req, tempFiles, output, defers, resp, rmFailed>>

\* ExtractText and ExtractMetadata after ctx2.Read.ReadContext() on the bytes
\* Text: "", PageCount: pageCount, Pages: make([]PageText, 0, pageCount)
ExtractTextResult(b) ==
    IF b.ok THEN [Ret(Nil, <<>>, PageCount(b), "", "") EXCEPT !.text = "", !.pages = <<>>]
    ELSE Fail("failed to read PDF context")

\* the placeholders set without looking at info
ExtractMetadataResultNoNilCheck(b) ==
    IF b.ok
    THEN Ret(Nil, <<>>, PageCount(b), "Document Title", "Document Author")
    ELSE Fail("failed to read PDF")

ExtractMetadataResult(b) ==
    IF b.ok
    THEN Ret(Nil, <<>>, PageCount(b),
             IF b.info THEN "Document Title" ELSE "", IF b.info THEN "Document Author" ELSE "")
    ELSE Fail("failed to read PDF")

ReadContext(p) ==
    /\ pc[p] = "lib" /\ req[p].op \in {"ExtractText", "ExtractMetadata"}
    /\ ret' = [ret EXCEPT ![p] = IF req[p].op = "ExtractText"
                                 THEN ExtractTextResult(req[p].pdfs[1])
                                 ELSE ExtractMetadataResult(req[p].pdfs[1])]
    /\ pc' = [pc EXCEPT ![p] = "unwind"]
    /\ UNCHANGED <<backend, ctx, engineCalls, config, fs, uuidNext, req, tempFiles, output, defers, resp,
                   created, held, rmFailed, libCalls, faults>>

\* the last globbed file is not read
ReadSplitFilesButLast(files, dir) ==
    LET names == Glob(files, dir) IN [k \in 1..(Len(names) - 1) |-> files[names[k]]]

\* the blobs SplitPDF collects: the globbed files, read in the order of the glob
ReadSplitFiles(files, dir) ==
    LET names == Glob(files, dir) IN [k \in 1..Len(names) |-> files[names[k]]]

\* os.ReadFile(outputFile), or filepath.Glob and the os.ReadFile loop of SplitPDF
ReadBack(p) ==
    /\ pc[p] = "read"
    /\ \/ /\ req[p].op = "SplitPDF"
          /\ ret' = [ret EXCEPT ![p] = Ret(Nil, ReadSplitFiles(fs, output[p]), 0, "", "")]
          /\ UNCHANGED faults
       \/ /\ req[p].op # "SplitPDF"
          /\ output[p] \in DOMAIN fs
          /\ ret' = [ret EXCEPT ![p] = Ret(Nil, <<fs[output[p]]>>, 0, "", "")]
          /\ UNCHANGED faults
       \/ /\ ret' = [ret EXCEPT ![p] = Fail("failed to read output")]
          /\ faults' = [faults EXCEPT ![p] = @ \cup {"read"}]
    /\ pc' = [pc EXCEPT ![p] = "unwind"]
    /\ UNCHANGED <<backend, ctx, engineCalls, config, fs, uuidNext, req, tempFiles, output, defers, resp,
                   created, held, rmFailed, libCalls>>

\* the names a deferred removal is aimed at that exist
Targets(files, d) == {m \in DOMAIN files : m = d.name \/ (d.all /\ InDir(d.name, m))}

\* the function returns: its deferred os.Remove / os.RemoveAll run, last first
Unwind(p) ==
    /\ pc[p] = "unwind" /\ defers[p] # <<>>
    /\ LET d == defers[p][Len(defers[p])] IN
       /\ defers' = [defers EXCEPT ![p] = SubSeq(@, 1, Len(@) - 1)]
       /\ \/ /\ fs' = IF d.all THEN RemoveAll(fs, d.name) ELSE Remove(fs, d.name)
             /\ held' = [held EXCEPT ![p] = @ \ Targets(fs, d)]
             /\ UNCHANGED rmFailed
          \/ /\ Targets(fs, d) # {}        \* the removal fails, its error is dropped
             /\ rmFailed' = [rmFailed EXCEPT ![p] = @ \cup Targets(fs, d)]
             /\ UNCHANGED <<fs, held>>
    /\ UNCHANGED <<backend, ctx, engineCalls, config, uuidNext, pc, req, tempFiles, output, resp, ret,
                   created, libCalls, faults>>

\* err.Error() handed to the client
EngineResponseEchoesError(r, result) ==
    IF result.err # Nil THEN Response(500, "json", result.err)
    ELSE Response(200, SuccessKind(r.op), "")

\* the handler's answer to what the engine returned
EngineResponse(r, result) ==
    IF result.err # Nil THEN Response(500, "json", FailureMessage(r.op))
    ELSE Response(200, SuccessKind(r.op), "")

\* the return after the error response left out: the success response follows
EpilogueNoReturn(r, result) ==
    IF result.err # Nil
    THEN <<EngineResponse(r, result), Response(200, SuccessKind(r.op), "")>>
    ELSE <<EngineResponse(r, result)>>

\* what the handler writes once the engine has returned: if err != nil the
\* error response and return, else the success response
Epilogue(r, result) == <<EngineResponse(r, result)>>

\* the engine method has returned; over HTTP the handler writes the response
Return(p) ==
    /\ pc[p] = "unwind" /\ defers[p] = <<>>
    /\ pc' = [pc EXCEPT ![p] = "done"]
    /\ resp' = [resp EXCEPT ![p] = IF req[p].via = "http"
                                   THEN @ \o Epilogue(req[p], ret[p]) ELSE @]
    /\ UNCHANGED <<backend, ctx, engineCalls, config, fs, uuidNext, req, tempFiles, output, defers, ret,
                   created, held, rmFailed, libCalls, faults>>

\* an engine that gives up where it stands when its context is cancelled
OnCancelAbandons(at) == "done"

\* where an invocation stands after its context was cancelled: where it stood.
\* The engine methods hand ctx to tracer.Start and never read it, and no
\* library call takes it.
OnCancel(at) == at

\* the caller cancels the context of a running invocation (the client goes
\* away), or its deadline passes
Cancel(p) ==
    /\ pc[p] \in {"handler", "engine", "create", "output", "parsewm", "lib", "read", "unwind"}
    /\ ctx[p].err = Nil
    /\ \E e \in {Canceled, DeadlineExceeded} :
         ctx' = [ctx EXCEPT ![p] = [err |-> e, at |-> pc[p]]]
    /\ pc' = [pc EXCEPT ![p] = OnCancel(@)]
    /\ UNCHANGED <<backend, config, fs, uuidNext, req, tempFiles, output, defers, ret, resp,
                   created, held, rmFailed, libCalls, faults, engineCalls>>

\* ---------------------------------------------------------- task service
\* a user calls getTaskById, updateTask or deleteTask
StartTaskCall(c) ==
    /\ taskCalls[c].pc = "idle"
    /\ \E u \in Users, op \in {"getTaskById", "updateTask", "deleteTask"} :
         taskCalls' = [taskCalls EXCEPT ![c] =
                          TaskCall(op, u, IF op = "getTaskById" THEN "cacheGet" ELSE "find")]
    /\ UNCHANGED <<pdfVars, authVars, taskRow, taskCache>>

\* getTaskById: cache.get(cacheKey); if (cached) return cached
CacheGet(c) ==
    /\ taskCalls[c].pc = "cacheGet"
    /\ taskCalls' = [taskCalls EXCEPT ![c] =
                        IF taskCache # <<>>
                        THEN [@ EXCEPT !.pc = "done", !.result = "task", !.task = taskCache]
                        ELSE [@ EXCEPT !.pc = "find"]]
    /\ UNCHANGED <<pdfVars, authVars, taskRow, taskCache>>

\* prisma.task.findUnique({ where: { id, deletedAt: null } }); NotFoundError
FindTask(c) ==
    /\ taskCalls[c].pc = "find"
    /\ taskCalls' = [taskCalls EXCEPT ![c] =
                        IF taskRow.deletedAt
                        THEN [@ EXCEPT !.pc = "done", !.result = "NotFoundError"]
                        ELSE [@ EXCEPT !.pc = "verify", !.task = <<taskRow>>]]
    /\ UNCHANGED <<pdfVars, authVars, taskRow, taskCache>>

\* verifyProjectAccess: a membership row, or else the project's creatorId
HasProjectAccess(userId) == userId \in ProjectMembers \/ userId = ProjectCreator

VerifyProjectAccess(c) ==
    /\ taskCalls[c].pc = "verify"
    /\ taskCalls' = [taskCalls EXCEPT ![c] =
                        IF ~HasProjectAccess(@.user)
                        THEN [@ EXCEPT !.pc = "done", !.result = "ForbiddenError"]
                        ELSE [@ EXCEPT !.pc = IF taskCalls[c].op = "getTaskById"
                                              THEN "cacheSet" ELSE "write"]]
    /\ UNCHANGED <<pdfVars, authVars, taskRow, taskCache>>

\* getTaskById: cache.set(cacheKey, task, cacheTTL); return task
CacheSet(c) ==
    /\ taskCalls[c].pc = "cacheSet"
    /\ taskCache' = taskCalls[c].task
    /\ taskCalls' = [taskCalls EXCEPT ![c] = [@ EXCEPT !.pc = "done", !.result = "task"]]
    /\ UNCHANGED <<pdfVars, authVars, taskRow>>

\* prisma.task.update({ where: { id } }): the update of updateTask, the
\* deletedAt of deleteTask
WriteTask(c) ==
    /\ taskCalls[c].pc = "write"
    /\ taskRow' = IF taskCalls[c].op = "deleteTask"
                  THEN [taskRow EXCEPT !.deletedAt = TRUE]
                  ELSE [taskRow EXCEPT !.rev = Min(@ + 1, MaxUpdates)]
    /\ taskCalls' = [taskCalls EXCEPT ![c] = [@ EXCEPT !.pc = "invalidate"]]
    /\ UNCHANGED <<pdfVars, authVars, taskCache>>

\* cache.delete(cacheKey) and invalidateTaskCache(projectId)
InvalidateCache(c) ==
    /\ taskCalls[c].pc = "invalidate"
    /\ taskCache' = <<>>
    /\ taskCalls' = [taskCalls EXCEPT ![c] = [@ EXCEPT !.pc = "done", !.result = "ok"]]
    /\ UNCHANGED <<pdfVars, authVars, taskRow>>

\* the call has returned or thrown; the request handler is free again
ReturnTaskCall(c) ==
    /\ taskCalls[c].pc = "done"
    /\ taskCalls' = [taskCalls EXCEPT ![c] = NoTaskCall]
    /\ UNCHANGED <<pdfVars, authVars, taskRow, taskCache>>

\* the cache entry reaches its TTL
CacheExpire ==
    /\ taskCache # <<>>
    /\ taskCache' = <<>>
    /\ UNCHANGED <<pdfVars, authVars, taskRow, taskCalls>>

\* ---------------------------------------------------------- auth service
Refreshing == {c \in Procs : authCalls[c].op = "refreshTokens"
                             /\ authCalls[c].pc \in {"find", "revoke", "store"}}

\* a client calls refreshTokens with some token string
StartRefresh(c) ==
    /\ authCalls[c].pc = "idle"
    /\ Len(refreshToken) + Cardinality(Refreshing) < MaxRefreshTokens
    /\ \E t \in TokenStrings :
         authCalls' = [authCalls EXCEPT ![c] = AuthCall("refreshTokens", t, "find")]
    /\ UNCHANGED <<pdfVars, taskVars, refreshToken>>

\* refreshTokens: prisma.refreshToken.findUnique and the checks on the
\* record that was read
FindToken(c) ==
    /\ authCalls[c].pc = "find"
    /\ LET t == authCalls[c].token
           found == t \in DOMAIN refreshToken
       IN authCalls' = [authCalls EXCEPT ![c] =
              IF ~found \/ refreshToken[t].revokedAt
              THEN [@ EXCEPT !.pc = "done", !.result = "Invalid refresh token"]
              ELSE IF refreshToken[t].expired
              THEN [@ EXCEPT !.pc = "done", !.result = "Refresh token expired"]
              ELSE [@ EXCEPT !.pc = "revoke", !.tokenRecord = <<refreshToken[t]>>]]
    /\ UNCHANGED <<pdfVars, taskVars, refreshToken>>

\* refreshTokens: prisma.refreshToken.update({ where: { token }, data: { revokedAt } })
RevokeToken(c) ==
    /\ authCalls[c].pc = "revoke"
    /\ refreshToken' = [refreshToken EXCEPT ![authCalls[c].token].revokedAt = TRUE]
    /\ authCalls' = [authCalls EXCEPT ![c].pc = "store"]
    /\ UNCHANGED <<pdfVars, taskVars>>

\* refreshTokens: storeRefreshToken(user.id, tokens.refreshToken); return tokens
StoreToken(c) ==
    /\ authCalls[c].pc = "store"
    /\ refreshToken' = Append(refreshToken, TokenRecord(authCalls[c].tokenRecord[1].userId))
    /\ authCalls' = [authCalls EXCEPT ![c] = [@ EXCEPT !.pc = "done", !.result = "tokens"]]
    /\ UNCHANGED <<pdfVars, taskVars>>

\* logout: prisma.refreshToken.updateMany({ where: { token }, data: { revokedAt } })
Logout(c) ==
    /\ authCalls[c].pc = "idle"
    /\ \E t \in TokenStrings :
         /\ refreshToken' = [i \in DOMAIN refreshToken |->
                                IF i = t THEN [refreshToken[i] EXCEPT !.revokedAt = TRUE]
                                ELSE refreshToken[i]]
         /\ authCalls' = [authCalls EXCEPT ![c] =
                             [AuthCall("logout", t, "done") EXCEPT !.result = "ok"]]
    /\ UNCHANGED <<pdfVars, taskVars>>

\* resetPassword: with a reset token that is unknown, used or expired,
\* BadRequestError; else one transaction that revokes every refresh token of
\* the user
ResetPassword(c) ==
    /\ authCalls[c].pc = "idle"
    /\ \E u \in AuthUsers, valid \in BOOLEAN :
         /\ refreshToken' = [i \in DOMAIN refreshToken |->
                                IF valid /\ refreshToken[i].userId = u
                                THEN [refreshToken[i] EXCEPT !.revokedAt = TRUE]
                                ELSE refreshToken[i]]
         /\ authCalls' = [authCalls EXCEPT ![c] =
                             [AuthCall("resetPassword", 0, "done") EXCEPT
                                 !.result = IF valid THEN "ok" ELSE "BadRequestError"]]
    /\ UNCHANGED <<pdfVars, taskVars>>

\* the call has returned or thrown; the request handler is free again
ReturnAuthCall(c) ==
    /\ authCalls[c].pc = "done"
    /\ authCalls' = [authCalls EXCEPT ![c] = NoAuthCall]
    /\ UNCHANGED <<pdfVars, taskVars, refreshToken>>

\* a stored token reaches its expiresAt
TokenExpires ==
    /\ \E t \in DOMAIN refreshToken :
         /\ ~refreshToken[t].expired
         /\ refreshToken' = [refreshToken EXCEPT ![t].expired = TRUE]
    /\ UNCHANGED <<pdfVars, taskVars, authCalls>>

\* ---------------------------------------------------------------- logging
\* s.log.Info at the entry of an engine method
StartMessage(o) ==
    CASE o = "ConvertToImage"  -> "Converting PDF to images"
      [] o = "MergePDFs"       -> "Merging PDFs"
      [] o = "SplitPDF"        -> "Splitting PDF"
      [] o = "ExtractText"     -> "Extracting text from PDF"
      [] o = "ExtractMetadata" -> "Extracting PDF metadata"
      [] o = "CompressPDF"     -> "Compressing PDF"
      [] o = "AddWatermark"    -> "Adding watermark to PDF"

\* s.log.Info before an engine method returns its result
CompletedMessage(o) ==
    CASE o = "ConvertToImage"  -> "PDF to image conversion completed"
      [] o = "MergePDFs"       -> "PDFs merged successfully"
      [] o = "SplitPDF"        -> "PDF split successfully"
      [] o = "ExtractText"     -> "Text extraction completed"
      [] o = "ExtractMetadata" -> "Metadata extraction completed"
      [] o = "CompressPDF"     -> "PDF compression completed"
      [] o = "AddWatermark"    -> "Watermark added successfully"

\* h.log.Error(..., "error", err) when the engine returned an error
HandlerErrorMessage(o) ==
    CASE o = "ConvertToImage"  -> "Failed to convert PDF to images"
      [] o = "MergePDFs"       -> "Failed to merge PDFs"
      [] o = "SplitPDF"        -> "Failed to split PDF"
      [] o = "ExtractText"     -> "Failed to extract text"
      [] o = "ExtractMetadata" -> "Failed to extract metadata"
      [] o = "CompressPDF"     -> "Failed to compress PDF"
      [] o = "AddWatermark"    -> "Failed to add watermark"

LogEntry(level, msg, err) == [level |-> level, msg |-> msg, err |-> err]

\* what the invocation has logged so far. The deferred os.Remove and
\* os.RemoveAll calls, and the os.Remove of createTempFile, have their
\* results dropped: none of them logs.
Log(p) ==
    (IF engineCalls[p] # <<>>
     THEN {LogEntry("info", StartMessage(req[p].op), Nil)} ELSE {})
    \cup (IF engineCalls[p] # <<>> /\ ret[p].err = Nil
          THEN {LogEntry("info", CompletedMessage(req[p].op), Nil)} ELSE {})
    \cup (IF pc[p] = "done" /\ req[p].via = "http" /\ engineCalls[p] # <<>> /\ ret[p].err # Nil
          THEN {LogEntry("error", HandlerErrorMessage(req[p].op), ret[p].err)} ELSE {})

\* -------------------------------------------------------- specifications
EngineStep(p) ==
    \/ EngineEntry(p)
    \/ CreateTempFile(p)
    \/ NewOutput(p)
    \/ ParseWatermark(p)
    \/ LibMerge(p)
    \/ LibSplit(p)
    \/ LibOptimize(p)
    \/ LibWatermark(p)
    \/ ReadContext(p)
    \/ ReadBack(p)
    \/ Unwind(p)
    \/ Return(p)

\* one request at a time, every input
Next == Submit(1) \/ Handler(1) \/ EngineStep(1)

Spec == Init /\ [][Next]_vars

\* NumOps invocations of the engine in any interleaving
NextConc == \E p \in Procs : SubmitConc(p) \/ EngineStep(p)

SpecConc == Init /\ [][NextConc]_vars

\* one request at a time, its context cancelled at any point
NextCancel == SubmitCancel(1) \/ Handler(1) \/ EngineStep(1) \/ Cancel(1)

SpecCancel == Init /\ [][NextCancel]_vars

\* the steps of SplitPDF and MergePDFs
SplitMergeStep(p) ==
    \/ EngineEntry(p)
    \/ CreateTempFile(p)
    \/ NewOutput(p)
    \/ LibSplit(p)
    \/ LibMerge(p)
    \/ ReadBack(p)
    \/ Unwind(p)
    \/ Return(p)

\* a split, then a merge of what the split returned
NextRoundTrip ==
    \/ SubmitSplit(1)
    \/ SubmitMergeOfSplit(2, 1)
    \/ \E p \in {1, 2} : SplitMergeStep(p)

SpecRoundTrip == Init /\ [][NextRoundTrip]_vars

\* start-up: the configuration is loaded, then main goes on or exits
NextConfig == Load(1) \/ Main(1)

SpecConfig == InitConfig /\ [][NextConfig]_vars

\* calls of TaskService by any users, interleaved at their awaits
NextTask ==
    \/ \E c \in Procs :
          \/ StartTaskCall(c)
          \/ CacheGet(c)
          \/ FindTask(c)
          \/ VerifyProjectAccess(c)
          \/ CacheSet(c)
          \/ WriteTask(c)
          \/ InvalidateCache(c)
          \/ ReturnTaskCall(c)
    \/ CacheExpire

SpecTask == Init /\ [][NextTask]_vars

\* calls of AuthService, interleaved at their awaits
NextAuth ==
    \/ \E c \in Procs :
          \/ StartRefresh(c)
          \/ FindToken(c)
          \/ RevokeToken(c)
          \/ StoreToken(c)
          \/ Logout(c)
          \/ ResetPassword(c)
          \/ ReturnAuthCall(c)
    \/ TokenExpires

SpecAuth == Init /\ [][NextAuth]_vars

\* the Validation Gate alone, as a function of the bytes and the configuration
NextGate == SubmitGate(1) \/ Validate(1)

SpecGate == InitGate /\ [][NextGate]_vars

\* ================================================================ claims
StartsWithPDF(b) == b.len >= MagicLen /\ SubSeq(b.head, 1, MagicLen) = PDFMagic

Done(p) == pc[p] = "done"

\* C1 (as claimed): a request that reaches a PDF handler with an upload whose
\* first 4 bytes are not "%PDF" never has a scratch file or directory created
\* for it.
C1_NoScratchForNonPDF ==
    \A p \in Procs :
        (/\ req[p].via = "http" /\ req[p].form = "ok" /\ req[p].op \in EngineOps
         /\ \E k \in 1..Len(req[p].pdfs) : ~StartsWithPDF(req[p].pdfs[k]))
        => created[p] = {}

\* C2: when an engine operation has returned, on whatever path, every scratch
\* name the invocation created is gone from the temp root; the only names that
\* can remain are those whose own os.Remove / os.RemoveAll returned an error.
C2_ScratchReleased ==
    \A p \in Procs :
        Done(p) => \A n \in created[p] : n \in DOMAIN fs => n \in rmFailed[p]

\* a merge whose later createTempFile failed after earlier ones had succeeded,
\* returned with the temp root empty again
C2_Witness ==
    \E p \in Procs :
        /\ Done(p) /\ req[p].op = "MergePDFs" /\ ret[p].err # Nil
        /\ "alloc" \in faults[p] /\ Len(tempFiles[p]) >= 1
        /\ DOMAIN fs = {}

\* C3: under any interleaving of NumOps invocations sharing the temp root, no
\* two invocations hold a live scratch resource of the same name, and once all
\* have returned the temp root holds nothing but names whose own removal
\* returned an error.
C3_NoCollisionNoResidue ==
    /\ \A p, q \in Procs : p # q => held[p] \cap held[q] = {}
    /\ (\A p \in Procs : Done(p)) => DOMAIN fs \subseteq UNION {rmFailed[p] : p \in Procs}

\* two invocations hold scratch files of the same pattern at the same time
C3_Witness ==
    \E p, q \in Procs :
        /\ p # q /\ ~Done(p) /\ ~Done(q)
        /\ \E n \in held[p], m \in held[q] : n.pat = m.pat /\ n.idx = m.idx /\ n # m

\* C4: a merge of fewer than 2 blobs fails with "at least 2 PDFs required"
\* inside the engine and is answered 400 at the handler boundary; no scratch
\* file is created for it and the merge library is never called.
C4_MergeNeedsTwo ==
    \A p \in Procs :
        (req[p].op = "MergePDFs" /\ req[p].form # "missing" /\ Len(req[p].pdfs) < 2)
        => /\ created[p] = {} /\ libCalls[p] = <<>> /\ pc[p] \notin {"create", "output", "lib", "read"}
           /\ Done(p) /\ req[p].via = "direct" => ret[p].err = ErrMergeCount
           /\ Done(p) /\ req[p].via = "http"
                => resp[p] = <<Response(400, "json", "At least 2 PDFs required")>> /\ ret[p] = NoRet

\* the engine itself refused a merge of one blob
C4_Witness ==
    \E p \in Procs :
        /\ Done(p) /\ req[p].op = "MergePDFs" /\ req[p].via = "direct"
        /\ Len(req[p].pdfs) = 1 /\ ret[p].err = ErrMergeCount

\* the page sequences of the blobs, one after the other
RECURSIVE PagesInOrder(_)
PagesInOrder(pdfs) ==
    IF pdfs = <<>> THEN <<>> ELSE Head(pdfs).pages \o PagesInOrder(Tail(pdfs))

RECURSIVE SumPageCounts(_)
SumPageCounts(pdfs) ==
    IF pdfs = <<>> THEN 0 ELSE PageCount(Head(pdfs)) + SumPageCounts(Tail(pdfs))

\* C5: a merge that succeeds wrote the i-th blob to the i-th scratch file, gave
\* the scratch files to the merge library in input order, and returns the
\* inputs' pages concatenated in input order (nothing reordered or dropped,
\* page count the sum of the inputs'); a merge of parseable blobs that meets no
\* environment failure succeeds.
C5_MergeOrder ==
    \A p \in Procs :
        (req[p].op = "MergePDFs" /\ Done(p) /\ Len(req[p].pdfs) >= 2 /\ req[p].form = "ok")
        => /\ ret[p].err = Nil =>
                /\ Len(libCalls[p]) = 1
                /\ libCalls[p][1].inFiles = tempFiles[p]
                /\ Len(tempFiles[p]) = Len(req[p].pdfs)
                /\ \A i \in 1..Len(tempFiles[p]) :
                      /\ tempFiles[p][i].idx = i - 1
                      /\ libCalls[p][1].inData[i] = req[p].pdfs[i]
                /\ Len(ret[p].files) = 1
                /\ ret[p].files[1].pages = PagesInOrder(req[p].pdfs)
                /\ PageCount(ret[p].files[1]) = SumPageCounts(req[p].pdfs)
           /\ ((\A i \in 1..Len(req[p].pdfs) : req[p].pdfs[i].ok) /\ faults[p] = {})
                => ret[p].err = Nil

\* A (2 pages), B (1 page), A again: 5 pages, A's pages twice
C5_Witness ==
    \E p \in Procs :
        /\ Done(p) /\ req[p].op = "MergePDFs" /\ ret[p].err = Nil
        /\ req[p].pdfs = <<Doc("A", 2), Doc("B", 1), Doc("A", 2)>>
        /\ ret[p].files[1].pages =
             <<Page("A", 1), Page("A", 2), Page("B", 1), Page("A", 1), Page("A", 2)>>

\* C6 (as claimed): a split that succeeds on a document of n pages returns n
\* blobs and the i-th blob is page i of the document.
C6_SplitAscending ==
    \A p \in Procs :
        (req[p].op = "SplitPDF" /\ Done(p) /\ ret[p].err = Nil)
        => /\ Len(ret[p].files) = PageCount(req[p].pdfs[1])
           /\ \A i \in 1..Len(ret[p].files) :
                 ret[p].files[i].pages = <<req[p].pdfs[1].pages[i]>>

\* a direct call of the gate that has returned
Validated(p) == req[p].op = "ValidateRequest" /\ Done(p)

\* C7: the gate fails with "PDF data is empty" for a blob of length 0, whatever
\* the configured ceiling.
C7_EmptyInput ==
    \A p \in Procs :
        (Validated(p) /\ req[p].pdfs[1].len = 0) => ret[p].err = ErrEmpty

\* the empty blob against a ceiling of 0, which no blob can exceed less
C7_Witness ==
    \E p \in Procs :
        /\ Validated(p) /\ req[p].pdfs[1].len = 0 /\ config.maxFileSize = 0
        /\ ret[p].err = ErrEmpty

\* C8: the gate fails with "PDF file too large" exactly when the length is
\* strictly greater than maxFileSize; a blob with the signature whose length
\* equals maxFileSize is accepted.
C8_TooLarge ==
    \A p \in Procs :
        Validated(p) =>
            /\ ret[p].err = ErrTooLarge <=> req[p].pdfs[1].len > config.maxFileSize
            /\ (StartsWithPDF(req[p].pdfs[1]) /\ req[p].pdfs[1].len = config.maxFileSize)
                 => ret[p].err = Nil

\* a signed blob of exactly maxFileSize bytes was accepted
C8_Witness ==
    \E p \in Procs :
        /\ Validated(p) /\ StartsWithPDF(req[p].pdfs[1])
        /\ req[p].pdfs[1].len = config.maxFileSize /\ ret[p].err = Nil

\* C9: for a non-empty blob within the size ceiling the gate returns no error
\* if and only if the first 4 bytes are "%PDF", and "invalid PDF format"
\* otherwise, blobs of 1 to 3 bytes included.
C9_Signature ==
    \A p \in Procs :
        (/\ Validated(p)
         /\ req[p].pdfs[1].len > 0 /\ req[p].pdfs[1].len <= config.maxFileSize)
        => /\ ret[p].err = Nil <=> StartsWithPDF(req[p].pdfs[1])
           /\ ~StartsWithPDF(req[p].pdfs[1]) => ret[p].err = ErrInvalidFormat

\* the 4 bytes "%PDG", within the ceiling, were refused
C9_Witness ==
    \E p \in Procs :
        /\ Validated(p) /\ req[p].pdfs[1].head = NearMagic
        /\ req[p].pdfs[1].len <= config.maxFileSize
        /\ ret[p].err = ErrInvalidFormat

ErrTooManyPages == "too many pages"

\* C10 (as claimed): the gate fails with TooManyPages for every blob whose
\* parsed page count exceeds maxPages.
C10_TooManyPages ==
    \A p \in Procs :
        (/\ Validated(p) /\ req[p].pdfs[1].ok
         /\ PageCount(req[p].pdfs[1]) > config.maxPages)
        => ret[p].err = ErrTooManyPages

\* an upload of the request that the gate would refuse
FailsValidation(r, cfg) == \E k \in 1..Len(r.pdfs) : ValidateRequest(r.pdfs[k], cfg) # Nil

\* C11 (as claimed): on every PDF endpoint a request whose upload was read and
\* fails validation (empty, over the size ceiling, wrong signature) is answered
\* with one 400 JSON error response, never with a 500 and never with a 200.
C11_ValidationIs400 ==
    \A p \in Procs :
        (/\ Done(p) /\ req[p].via = "http" /\ req[p].form = "ok" /\ req[p].op \in EngineOps
         /\ FailsValidation(req[p], config))
        => resp[p] \in {<<Response(400, "json", e)>> :
                           e \in {ErrEmpty, ErrTooLarge, ErrInvalidFormat, "At least 2 PDFs required"}}

\* C12: a handler invocation writes exactly one response on every path (file
\* field missing, upload unreadable, validation failure, engine error,
\* success): none while it runs, one JSON or binary response once it has
\* returned; and it enters at most one engine method, none when it answered
\* before reaching the engine.
C12_OneResponse ==
    \A p \in Procs :
        req[p].via = "http" =>
            /\ ~Done(p) => resp[p] = <<>>
            /\ Done(p) => Len(resp[p]) = 1 /\ resp[p][1].kind \in {"json", "data"}
            /\ Len(engineCalls[p]) <= 1
            /\ (Done(p) /\ ret[p] = NoRet) => engineCalls[p] = <<>>

\* a watermark request whose engine call failed was answered once, with the 500
C12_Witness ==
    \E p \in Procs :
        /\ Done(p) /\ req[p].via = "http" /\ req[p].op = "AddWatermark"
        /\ ret[p].err # Nil /\ engineCalls[p] = <<"AddWatermark">>
        /\ resp[p] = <<Response(500, "json", "Watermark failed")>>

\* C13: a request to a placeholder route (rotate, encrypt, decrypt, batch
\* process, batch status) is answered with one 501 whatever it carries: file
\* field missing, upload unreadable, upload a PDF or not. No engine method is
\* entered, no scratch name is created, the answer is never a 500 or a 200.
C13_PlaceholderIs501 ==
    \A p \in Procs :
        req[p].op \in PlaceholderOps =>
            /\ pc[p] \in {"handler", "done"}
            /\ engineCalls[p] = <<>> /\ created[p] = {} /\ libCalls[p] = <<>> /\ ret[p] = NoRet
            /\ Done(p) => resp[p] = <<Response(501, "json", "")>>

\* a rotate request without the file field was answered 501
C13_Witness ==
    \E p \in Procs :
        /\ Done(p) /\ req[p].op = "RotatePages" /\ req[p].form = "missing"
        /\ resp[p] = <<Response(501, "json", "")>>

\* C14: an engine operation whose context was cancelled, at whatever point,
\* returns only after all its deferred removals have run, and every scratch
\* name it created is then gone from the temp root; the only names that can
\* remain are those whose own os.Remove / os.RemoveAll returned an error.
C14_CancelledStillReleases ==
    \A p \in Procs :
        (Done(p) /\ ctx[p].err # Nil)
        => /\ defers[p] = <<>>
           /\ \A n \in created[p] : n \in DOMAIN fs => n \in rmFailed[p]

\* a compression cancelled during the library call, when its input scratch
\* file existed, returned with the temp root empty
C14_Witness ==
    \E p \in Procs :
        /\ Done(p) /\ req[p].op = "CompressPDF"
        /\ ctx[p].err = Canceled /\ ctx[p].at = "lib"
        /\ created[p] # {} /\ DOMAIN fs = {}

ErrTimeout == "timeout"

\* C15 (as claimed): an engine operation entered with a context whose deadline
\* has been exceeded returns the timeout error, not a generic failure and not
\* a result.
C15_TimeoutCategory ==
    \A p \in Procs :
        (/\ Done(p) /\ engineCalls[p] # <<>>
         /\ ctx[p].err = DeadlineExceeded /\ ctx[p].at \in {"handler", "engine"})
        => ret[p].err = ErrTimeout

\* C16: a split of a parseable document P that meets no environment failure
\* succeeds and returns PageCount(P) blobs; when P has at least 2 pages, a
\* merge of those blobs in the order the split returned them, meeting no
\* environment failure either, succeeds and returns one document with as many
\* pages as P.
C16_SplitThenMerge ==
    \A p, q \in Procs :
        LET P == req[p].pdfs[1] IN
        (req[p].op = "SplitPDF" /\ Done(p) /\ P.ok /\ faults[p] = {})
        => /\ ret[p].err = Nil /\ Len(ret[p].files) = PageCount(P)
           /\ (/\ PageCount(P) >= 2
               /\ req[q].op = "MergePDFs" /\ req[q].pdfs = ret[p].files
               /\ Done(q) /\ faults[q] = {})
              => /\ ret[q].err = Nil /\ Len(ret[q].files) = 1
                 /\ PageCount(ret[q].files[1]) = PageCount(P)

\* a document of MaxMerge pages was split and merged back to MaxMerge pages
C16_Witness ==
    \E p, q \in Procs :
        /\ req[p].op = "SplitPDF" /\ Done(p) /\ PageCount(req[p].pdfs[1]) = MaxMerge
        /\ req[q].op = "MergePDFs" /\ req[q].pdfs = ret[p].files /\ Done(q)
        /\ ret[q].err = Nil /\ PageCount(ret[q].files[1]) = MaxMerge

ErrMetadataRead == "failed to read PDF"

\* C17: ExtractMetadata fails, with "failed to read PDF", exactly when the
\* document structure cannot be parsed; on a parseable document without an
\* information dictionary it succeeds with title, author, subject, creator,
\* producer, creation date and modification date all empty strings. Over HTTP
\* the first is answered 500, the second 200.
C17_NoInfoDictionary ==
    \A p \in Procs :
        (req[p].op = "ExtractMetadata" /\ Done(p) /\ req[p].form = "ok")
        => LET P == req[p].pdfs[1] IN
           /\ ret[p].err # Nil <=> ~P.ok
           /\ ret[p].err # Nil => ret[p].err = ErrMetadataRead
           /\ (P.ok /\ ~P.info)
                => /\ ret[p].pageCount = PageCount(P)
                   /\ \A f \in {"title", "author", "subject", "creator", "producer",
                                "creationDate", "modDate"} : ret[p][f] = ""
           /\ req[p].via = "http"
                => resp[p] = <<Response(IF P.ok THEN 200 ELSE 500, "json",
                                        IF P.ok THEN "" ELSE "Extraction failed")>>

\* the 2-page document without an information dictionary gave empty fields
C17_Witness ==
    \E p \in Procs :
        /\ req[p].op = "ExtractMetadata" /\ Done(p) /\ req[p].pdfs = <<DocNoInfo("B", 2)>>
        /\ ret[p].err = Nil /\ ret[p].title = "" /\ ret[p].author = "" /\ ret[p].pageCount = 2

\* C18 (as claimed): for a document that has an information dictionary, the
\* title and author ExtractMetadata returns are the values the dictionary
\* stores, empty when it lacks them.
C18_StoredTitleAuthor ==
    \A p \in Procs :
        (/\ req[p].op = "ExtractMetadata" /\ Done(p) /\ ret[p].err = Nil
         /\ req[p].pdfs[1].info)
        => /\ ret[p].title = req[p].pdfs[1].title
           /\ ret[p].author = req[p].pdfs[1].author

\* the texts of the per-page entries, joined with a blank line between them
RECURSIVE JoinTexts(_)
JoinTexts(pages) ==
    IF pages = <<>> THEN ""
    ELSE IF Len(pages) = 1 THEN pages[1].text
    ELSE pages[1].text \o "\n\n" \o JoinTexts(Tail(pages))

\* C19 (as claimed): an ExtractText that succeeds on a document of n pages
\* returns page count n and n per-page entries numbered 1..n in that order,
\* and its aggregate text is the per-page texts joined with one blank line.
C19_PerPageText ==
    \A p \in Procs :
        (req[p].op = "ExtractText" /\ Done(p) /\ ret[p].err = Nil)
        => /\ ret[p].pageCount = PageCount(req[p].pdfs[1])
           /\ Len(ret[p].pages) = PageCount(req[p].pdfs[1])
           /\ \A i \in 1..Len(ret[p].pages) : ret[p].pages[i].pageNumber = i
           /\ ret[p].text = JoinTexts(ret[p].pages)

\* C20 (as claimed): a ConvertToImage that the gate let through returns one
\* image per page of a readable source in a supported format, and fails, never
\* succeeds, when the source is unreadable or the format is not supported.
C20_OneImagePerPage ==
    \A p \in Procs :
        (/\ req[p].op = "ConvertToImage" /\ Done(p) /\ ret[p] # NoRet)
        => LET P == req[p].pdfs[1] IN
           /\ ret[p].err = Nil => Len(ret[p].files) = PageCount(P)
           /\ (~P.ok \/ req[p].format \notin SupportedFormats) => ret[p].err # Nil

\* the pages a page specification selects of a document of n pages
Selected(range, n) == IF range = "all" THEN [i \in 1..n |-> i] ELSE <<1>>
Malformed(range) == range \notin {"all", "1"}

\* C21 (as claimed): a split that was given a malformed page specification
\* fails; a split that succeeds returns the pages its page specification
\* selects, one blob each, and no others (on documents short enough for
\* their page files to be globbed in page order).
C21_PageRangeHonoured ==
    \A p \in Procs :
        (req[p].op = "SplitPDF" /\ Done(p) /\ ret[p] # NoRet)
        => LET P == req[p].pdfs[1]
               sel == Selected(req[p].pageRange, PageCount(P))
           IN
           /\ Malformed(req[p].pageRange) => ret[p].err # Nil
           /\ (ret[p].err = Nil /\ PageCount(P) < MaxDocPages)
                => /\ Len(ret[p].files) = Len(sel)
                   /\ \A i \in 1..Len(ret[p].files) :
                         ret[p].files[i].pages = <<P.pages[sel[i]]>>

\* C22 (as claimed): every failure response (400 or 500) of a PDF endpoint
\* carries a machine-readable error code beside its message.
C22_ErrorCode ==
    \A p \in Procs :
        \A k \in 1..Len(resp[p]) :
            resp[p][k].status \in {400, 500}
            => resp[p][k].error # "" /\ resp[p][k].code # ""

\* the limits the configuration is said to validate
ValidLimits(cfg) ==
    /\ cfg.port \in 1..MaxPort
    /\ cfg.maxFileSize > 0
    /\ cfg.maxPages > 0
    /\ cfg.logLevel \in ValidLogLevels
    /\ cfg.compressionLevel \in 1..3

\* C23 (as claimed): Load returns an error exactly when a validated limit is
\* invalid (port, max file size, max page count, log level, compression
\* level) or the configuration cannot be read, and the service starts only on
\* a configuration whose limits are all valid.
C23_LoadFailsFast ==
    \A p \in Procs :
        /\ pc[p] \in {"loaded", "exit", "serving"}
             => (ret[p].err = Nil => ValidLimits(config))
        /\ pc[p] = "serving" => ValidLimits(config)

Alone(r) ==
    LET in(k) == Name(InputPattern(r.op), k - 1, 1, 0)
        ins == [k \in 1..Len(r.pdfs) |-> in(k)]
        root == [n \in {in(k) : k \in 1..Len(r.pdfs)} |->
                    r.pdfs[CHOOSE k \in 1..Len(r.pdfs) : in(k) = n]]
        dir == Name("split-output", 0, 1, 0)
        one(res, msg) == IF res.ok THEN Ret(Nil, <<res.data>>, 0, "", "") ELSE Fail(msg)
    IN
    CASE r.op = "ConvertToImage"  -> ConvertToImageResult(r)
      [] r.op = "ExtractText"     -> ExtractTextResult(r.pdfs[1])
      [] r.op = "ExtractMetadata" -> ExtractMetadataResult(r.pdfs[1])
      [] r.op = "MergePDFs" ->
            IF MergeTooFew(r.pdfs) THEN Fail(ErrMergeCount)
            ELSE one(MergeCreateFile(root, ins), "failed to merge PDFs")
      [] r.op = "CompressPDF"  -> one(OptimizeFile(root, in(1)), "failed to compress PDF")
      [] r.op = "AddWatermark" -> one(AddWatermarksFile(root, in(1)), "failed to add watermark")
      [] r.op = "SplitPDF" ->
            LET res == SplitFile(root, in(1), dir) IN
            IF res.ok THEN Ret(Nil, ReadSplitFiles(res.out, dir), 0, "", "")
            ELSE Fail("failed to split PDF")

\* C25: an engine operation that meets no environment failure returns what it
\* returns when run alone in an empty temp root, whatever the temp root holds
\* and whatever the other invocations do or did, failed or not; so two
\* invocations with the same request return the same result or the same error.
C25_PureFunction ==
    \A p \in Procs :
        (Done(p) /\ req[p].op \in EngineOps /\ engineCalls[p] # <<>> /\ faults[p] = {})
        => /\ ret[p] = Alone(req[p])
           /\ \A q \in Procs :
                 (Done(q) /\ req[q] = req[p] /\ faults[q] = {}) => ret[q] = ret[p]

\* a merge returned its document although the other invocation, a merge with
\* an unreadable input, failed and left a scratch file behind
C25_Witness ==
    \E p, q \in Procs :
        /\ p # q /\ Done(p) /\ Done(q)
        /\ req[p].op = "MergePDFs" /\ faults[p] = {} /\ ret[p].err = Nil
        /\ req[q].op = "MergePDFs" /\ ret[q].err # Nil /\ rmFailed[q] # {}

\* the error of a removal that failed
ErrRemove == "remove failed"

\* C26 (as claimed): when a removal of scratch failed during release, the
\* operation returns what it returns without that failure, its result if the
\* transformation succeeded, and the removal failure is logged.
C26_RemovalFailureLogged ==
    \A p \in Procs :
        (Done(p) /\ req[p].op \in EngineOps /\ rmFailed[p] # {})
        => /\ faults[p] = {} => ret[p] = Alone(req[p])
           /\ \E e \in Log(p) : e.level \in {"warn", "error"} /\ e.err = ErrRemove

\* C27: a request that failed inside the engine is answered with one 500 whose
\* message is the endpoint's fixed message, whatever error the engine
\* returned (scratch creation, library, read back); the engine's error text
\* goes to the log and is not in the response.
C27_FixedFailureMessage ==
    \A p \in Procs :
        (/\ Done(p) /\ req[p].via = "http" /\ req[p].op \in EngineOps
         /\ engineCalls[p] # <<>> /\ ret[p].err # Nil)
        => /\ resp[p] = <<Response(500, "json", FailureMessage(req[p].op))>>
           /\ resp[p][1].error # ret[p].err
           /\ LogEntry("error", HandlerErrorMessage(req[p].op), ret[p].err) \in Log(p)

\* a merge that could not create its scratch file was answered "Merge failed"
C27_Witness ==
    \E p \in Procs :
        /\ Done(p) /\ req[p].via = "http" /\ req[p].op = "MergePDFs"
        /\ ret[p].err = "failed to create temp file"
        /\ resp[p] = <<Response(500, "json", "Merge failed")>>

\* the invocation that takes the step
Actor(p) == pc'[p] # pc[p] \/ defers'[p] # defers[p]

\* the scratch names a step removes or overwrites, and those it makes
Touched == {n \in DOMAIN fs : n \notin DOMAIN fs' \/ fs'[n] # fs[n]}
Made == DOMAIN fs' \ DOMAIN fs

\* the live scratch names of the other invocations
OwnedByOthers(p) == UNION {held[q] : q \in Procs \ {p}}

\* C28: in every step of every interleaving, the invocation that takes the
\* step removes and overwrites only scratch names it created itself, none
\* that another invocation holds; the names it makes are new and its own;
\* the files it hands to the library, and the split files it reads back, are
\* its own; and what it has deferred for removal is a scratch name it
\* generated, never the temp root.
C28_OwnNamesOnly ==
    [][\A p \in Procs :
          Actor(p) =>
              /\ Touched \subseteq created[p]
              /\ Touched \cap OwnedByOthers(p) = {}
              /\ Made \subseteq created'[p] \ OwnedByOthers(p)
              /\ libCalls'[p] # libCalls[p]
                    => LET call == libCalls'[p][Len(libCalls'[p])] IN
                       /\ \A i \in 1..Len(call.inFiles) :
                             call.inFiles[i] \in held[p] \ OwnedByOthers(p)
                       /\ call.out \notin OwnedByOthers(p)
              /\ pc[p] = "read" /\ req[p].op = "SplitPDF"
                    => \A k \in 1..Len(Glob(fs, output[p])) :
                          Glob(fs, output[p])[k] \in created[p] \ OwnedByOthers(p)
              /\ \A k \in 1..Len(defers'[p]) :
                    /\ defers'[p][k].name # NoName
                    /\ defers'[p][k].name \in {output'[p]} \cup created'[p]
      ]_vars

\* an invocation has returned with all its scratch gone while the scratch of
\* another, still running, is all in place
C28_Witness ==
    \E p, q \in Procs :
        /\ p # q /\ Done(p) /\ created[p] # {} /\ created[p] \cap DOMAIN fs = {}
        /\ ~Done(q) /\ held[q] # {} /\ held[q] \subseteq DOMAIN fs

\* C29 (as claimed): getTaskById returns the task only to a user who is a
\* member of the task's project or its creator, also when the task comes
\* from the cache.
C29_TaskOnlyWithAccess ==
    \A c \in Procs :
        (taskCalls[c].op = "getTaskById" /\ taskCalls[c].pc = "done"
         /\ taskCalls[c].result = "task")
        => HasProjectAccess(taskCalls[c].user)

\* C30 (as claimed): refreshTokens accepts a refresh token at most once, also
\* when two calls with the same token run concurrently: no two calls that
\* presented the same token both return a new token pair.
C30_RefreshAcceptedOnce ==
    \A c1, c2 \in Procs :
        (c1 # c2
         /\ authCalls[c1].op = "refreshTokens" /\ authCalls[c2].op = "refreshTokens"
         /\ authCalls[c1].token = authCalls[c2].token
         /\ authCalls[c1].result = "tokens")
        => authCalls[c2].result # "tokens"

====
